---------------------------- MODULE Spec2Model ----------------------------
(***************************************************************************)
(* opensphere-build-index: generation of the debug and the compiled index  *)
(* HTML files from templates (src/buildindex.js).                          *)
(*                                                                         *)
(* A string is a sequence of atoms: an atom is a run of characters that    *)
(* holds no separator, or one of the single characters "/", "\\" and the   *)
(* newline "\n".  An HTML document is a sequence of tokens (text, marker   *)
(* comments, version tokens, generated tags).  A file path is a sequence   *)
(* of segments.  The file system is a partial map from paths to files; a   *)
(* file the run has not looked at yet is absent from the map and gets its  *)
(* content when the program first looks at it.                             *)
(***************************************************************************)
EXTENDS Naturals, Sequences, FiniteSets, TLC

\* ------------------------------------------------------------- bounds
\* longest template list of a run
MaxTemplates == 2
\* longest template document (tokens) of the template-driven runs
MaxLen == 3
\* longest vendor manifest (characters) of the manifest-driven runs
MaxChars == 3

\* ------------------------------------------------------------ strings
RECURSIVE SeqsUpTo(_, _)
SeqsUpTo(S, n) ==
  IF n = 0 THEN {<<>>}
  ELSE LET shorter == SeqsUpTo(S, n - 1)
       IN  shorter \cup {Append(s, x) : s \in {q \in shorter : Len(q) = n - 1}, x \in S}

\* Array.prototype.join: the elements with sep between neighbours
RECURSIVE JoinWith(_, _)
JoinWith(ss, sep) ==
  IF ss = <<>> THEN <<>>
  ELSE IF Len(ss) = 1 THEN Head(ss)
  ELSE Head(ss) \o sep \o JoinWith(Tail(ss), sep)

\* String.prototype.split('\n'): always at least one line
RECURSIVE SplitLines(_)
SplitLines(s) ==
  IF \A i \in DOMAIN s : s[i] # "\n" THEN <<s>>
  ELSE LET k == CHOOSE i \in DOMAIN s : s[i] = "\n" /\ \A j \in 1..(i - 1) : s[j] # "\n"
       IN  <<SubSeq(s, 1, k - 1)>> \o SplitLines(SubSeq(s, k + 1, Len(s)))

\* slash(): every backslash becomes a forward slash
Slash(s) == [i \in DOMAIN s |-> IF s[i] = "\\" THEN "/" ELSE s[i]]

\* path.join of segments, as the string the platform prints
PathStr(segs, sep) == JoinWith([i \in DOMAIN segs |-> <<segs[i]>>], <<sep>>)

RECURSIVE CommonPrefixLen(_, _)
CommonPrefixLen(a, b) ==
  IF a = <<>> \/ b = <<>> \/ Head(a) # Head(b) THEN 0
  ELSE 1 + CommonPrefixLen(Tail(a), Tail(b))

\* path.relative(from, to)
Relative(from, to) ==
  LET n == CommonPrefixLen(from, to)
  IN  [i \in 1..(Len(from) - n) |-> ".."] \o SubSeq(to, n + 1, Len(to))

\* ------------------------------------------------------------- tokens
Text == [k |-> "text", v |-> <<>>]
NL == [k |-> "nl", v |-> <<>>]
Marker(m) == [k |-> "marker", v |-> <<m>>]
VersionToken(n) == [k |-> "token", v |-> <<n>>]
Ch(c) == [k |-> "ch", v |-> <<c>>]
Chs(s) == [i \in DOMAIN s |-> Ch(s[i])]
Str(s) == IF s = <<>> THEN <<>> ELSE <<[k |-> "str", v |-> s]>>

MarkerNames == {"VENDOR_CSS", "VENDOR_JS", "APP_CSS", "APP_JS"}
TokenNames == {"version", "appVersion", "packageVersion"}

\* String.prototype.replace with a string pattern: the first occurrence only
ReplaceFirst(doc, tok, rep) ==
  IF \A i \in DOMAIN doc : doc[i] # tok THEN doc
  ELSE LET k == CHOOSE i \in DOMAIN doc : doc[i] = tok /\ \A j \in 1..(i - 1) : doc[j] # tok
       IN  SubSeq(doc, 1, k - 1) \o rep \o SubSeq(doc, k + 1, Len(doc))

\* the characters of the token @n@
Word(n) ==
  CASE n = "version" -> <<"v", "e", "r", "s", "i", "o", "n">>
    [] n = "appVersion" -> <<"a", "p", "p", "V", "e", "r", "s", "i", "o", "n">>
    [] n = "packageVersion" ->
         <<"p", "a", "c", "k", "a", "g", "e", "V", "e", "r", "s", "i", "o", "n">>
TokenChars(n) == Chs(<<"@">> \o Word(n) \o <<"@">>)

\* the document as the characters the regular expressions see: VersionToken(n)
\* stands for the characters of @n@
RECURSIVE Expand(_)
Expand(doc) ==
  IF doc = <<>> THEN <<>>
  ELSE (IF Head(doc).k = "token" THEN TokenChars(Head(doc).v[1]) ELSE <<Head(doc)>>)
         \o Expand(Tail(doc))

\* String.prototype.replace with a /g pattern of literal characters: the
\* matches are found from left to right in the subject, each one starting
\* after the end of the one before it; what the replacements put together
\* is not looked at again
RECURSIVE ReplaceAll(_, _, _)
ReplaceAll(doc, pat, rep) ==
  IF Len(doc) < Len(pat) THEN doc
  ELSE IF SubSeq(doc, 1, Len(pat)) = pat
       THEN rep \o ReplaceAll(SubSeq(doc, Len(pat) + 1, Len(doc)), pat, rep)
       ELSE <<Head(doc)>> \o ReplaceAll(Tail(doc), pat, rep)

createScriptTag(filePath) ==
  IF filePath = <<>> THEN <<>> ELSE <<[k |-> "script", v |-> Slash(filePath)]>>

\* faulty variant: a tag for an empty path too
createLinkTagAlways(filePath) == <<[k |-> "link", v |-> Slash(filePath)]>>

createLinkTag(filePath) ==
  IF filePath = <<>> THEN <<>> ELSE <<[k |-> "link", v |-> Slash(filePath)]>>

addAppCss(cssPath, template) ==
  ReplaceFirst(template, Marker("APP_CSS"), createLinkTag(cssPath))

addAppScript(scriptPath, template) ==
  ReplaceFirst(template, Marker("APP_JS"), createScriptTag(scriptPath))

\* the part of addVendorCss after a successful read: files is the split content
addVendorCss(template, files) ==
  IF Len(files) > 0
  THEN ReplaceFirst(template, Marker("VENDOR_CSS"),
                    JoinWith([i \in DOMAIN files |-> createLinkTag(files[i])], <<NL>>))
  ELSE ReplaceFirst(template, Marker("VENDOR_CSS"), <<>>)

\* the part of addVendorScripts after getVendorScripts returned files
addVendorScripts(template, files) ==
  IF Len(files) > 0
  THEN ReplaceFirst(template, Marker("VENDOR_JS"),
                    JoinWith([i \in DOMAIN files |-> createScriptTag(files[i])], <<NL>>))
  ELSE ReplaceFirst(template, Marker("VENDOR_JS"), <<>>)

HasMarker(doc, m) == \E i \in DOMAIN doc : doc[i] = Marker(m)


\* ------------------------------------------------------------- inputs
Ids == {"index", "app"}

\* templateOptions.file: no override, or a relative or an absolute override
NoFile == [abs |-> FALSE, segs |-> <<>>]
FileOverrides ==
  {NoFile,
   [abs |-> FALSE, segs |-> <<"alt-template.html">>],
   [abs |-> TRUE, segs |-> <<"mods", "alt-template.html">>]}

Descriptors == [id : Ids, skip : BOOLEAN, file : {NoFile}]
OverrideDescriptors == [id : Ids, skip : {FALSE}, file : FileOverrides]

\* build options of the runs: a POSIX run with versions and a Windows run
\* without appVersion, without debugCss and with backslashes in its paths
PosixOptions ==
  [basePath |-> <<"base">>, appPath |-> <<"base">>, distPath |-> <<"dist">>,
   sep |-> "/",
   appVersion |-> <<"v2">>, packageVersion |-> <<"p1">>, overrideVersion |-> <<>>,
   debugCss |-> <<"styles", "/", "debug.css">>,
   compiledCss |-> <<"styles", "/", "test.min.css">>,
   compiledJs |-> <<"test.min.js">>]
WindowsOptions ==
  [basePath |-> <<"base">>, appPath |-> <<"app">>, distPath |-> <<"dist">>,
   sep |-> "\\",
   appVersion |-> <<>>, packageVersion |-> <<"p1">>, overrideVersion |-> <<"o1">>,
   debugCss |-> <<>>,
   compiledCss |-> <<"styles", "\\", "test.min.css">>,
   compiledJs |-> <<"test.min.js">>]
OptionSets == {PosixOptions, WindowsOptions}

\* the runs that look at the versions: also a Windows run with appVersion and
\* without packageVersion and overrideVersion
WindowsVersionOptions ==
  [WindowsOptions EXCEPT !.appVersion = <<"v2">>, !.packageVersion = <<>>,
                         !.overrideVersion = <<>>]
VersionOptionSets == {PosixOptions, WindowsOptions, WindowsVersionOptions}

\* the three templates of the test suite, and one that repeats two markers
baseTemplate ==
  <<Text, Marker("VENDOR_CSS"), Marker("APP_CSS"), VersionToken("appVersion"),
    VersionToken("version"), Marker("VENDOR_JS"), Marker("APP_JS")>>
noVendorTemplate ==
  <<Text, Marker("APP_CSS"), VersionToken("appVersion"), VersionToken("version"),
    Marker("APP_JS")>>
noAppTemplate ==
  <<Text, Marker("VENDOR_CSS"), VersionToken("appVersion"), VersionToken("version"),
    Marker("VENDOR_JS")>>
repeatTemplate ==
  <<Marker("VENDOR_CSS"), Marker("APP_JS"), Marker("VENDOR_CSS"), Marker("APP_JS")>>

SuiteTemplates == {baseTemplate, noVendorTemplate, noAppTemplate}
FillTemplates == {baseTemplate, repeatTemplate}
TemplateTokens ==
  {Text} \cup {Marker(m) : m \in MarkerNames} \cup {VersionToken(n) : n \in TokenNames}
AllTemplates == SeqsUpTo(TemplateTokens, MaxLen)

\* templates without markers, written character by character: at most MaxLen
\* pieces, each one a version token, a part of one, an @ or other text
VersionPieces ==
  {TokenChars(n) : n \in TokenNames}
    \cup {Chs(<<"@">>), Chs(<<"@", "v", "e", "r">>), Chs(<<"s", "i", "o", "n", "@">>),
          Chs(<<"@", "a", "p", "p">>), Chs(<<"V", "e", "r", "s", "i", "o", "n", "@">>),
          <<Text>>}
VersionTemplates == {JoinWith(ps, <<>>) : ps \in SeqsUpTo(VersionPieces, MaxLen)}

\* vendor manifests: file contents, character by character
OneManifest == {<<"a", "\n", "b">>}
ManifestChars == {"a", "\\", "\n"}
AllManifests == SeqsUpTo(ManifestChars, MaxChars)

\* ------------------------------------------------------------- state
VARIABLES
  templates,    \* options.templates
  debugOnly,    \* the debugOnly argument of buildIndex
  options,      \* the other build options
  files,        \* the file system: path -> [e: exists, d: content]
  queue,        \* the promise library's queue of pending callbacks
  mapNext,      \* next element of options.templates the map calls the mapper on
  waiting,      \* per template: the callbacks registered on its pending promise
  loader,       \* per template: state of its writeDebugLoader promise
  loaderCalls,  \* number of buildDebugLoader invocations
  resolved,     \* number of mapper promises the map has seen fulfilled
  result,       \* the promise buildIndex returned
  observed,     \* what the caller's callback on that promise has seen
  exited,       \* process.exit was called
  exitCode,     \* its argument
  dbg,          \* per template: what buildDebugIndex did
  cmp           \* per template: what buildCompiledIndex did

vars ==
  <<templates, debugOnly, options, files, queue, mapNext, waiting, loader,
    loaderCalls, resolved, result, observed, exited, exitCode, dbg, cmp>>

Missing == [e |-> FALSE, d |-> <<>>]
File(d) == [e |-> TRUE, d |-> d]

\* a file the run has not looked at yet holds any content of S, or does not exist
Look(p, S) ==
  IF p \in DOMAIN files THEN {files[p]} ELSE {Missing} \cup {File(c) : c \in S}

RECURSIVE Learn(_, _)
Learn(fs, reads) ==
  IF reads = <<>> THEN fs
  ELSE LET r == Head(reads)
           fs1 == IF r[1] \in DOMAIN fs THEN fs ELSE (r[1] :> r[2]) @@ fs
       IN  Learn(fs1, Tail(reads))

WriteFile(fs, p, d) ==
  [q \in DOMAIN fs \cup {p} |-> IF q = p THEN File(d) ELSE fs[q]]

\* ------------------------------------------------------------- paths
templatePath(o, t) ==
  LET templateFile == IF t.file.segs # <<>> THEN t.file
                      ELSE [abs |-> FALSE, segs |-> <<t.id \o "-template.html">>]
  IN  IF ~templateFile.abs THEN o.basePath \o templateFile.segs ELSE templateFile.segs

vendorPath(o, kind, mode, id) ==
  o.appPath \o <<".build", "resources-" \o kind \o "-" \o mode \o "-" \o id>>

debugIndexPath(o, id) == o.basePath \o <<id \o ".html">>
compiledIndexPath(o, id) == o.distPath \o <<id \o ".html">>
getAppLoaderPath(basePath) == basePath \o <<".build", "app-loader.js">>
gccArgsPath(basePath) == basePath \o <<".build", "gcc-args">>

\* where require.resolve finds google-closure-library/package.json
closureLibPath == <<"base", "node_modules", "google-closure-library">>

\* ------------------------------------------------------------ builders
\* what a build step did: st is "none" before it ran, then "skipped",
\* "missing" (it threw Missing template file), "exit" (a manifest read failed
\* and the process ended) or "written"; tpl, css and js are what it read
\* (the manifests split in lines), html is what it wrote
NotRun == [st |-> "none", tpl |-> <<>>, css |-> <<>>, js |-> <<>>, html |-> <<>>]
Outcome(st, tpl, css, js, html) ==
  [st |-> st, tpl |-> tpl, css |-> css, js |-> js, html |-> html]

\* lines 205-210
debugVersions(template) ==
  LET t1 == ReplaceAll(Expand(template), TokenChars("version"), <<>>)
      t2 == ReplaceAll(t1, TokenChars("appVersion"), Str(<<"dev">>))
  IN  ReplaceAll(t2, TokenChars("packageVersion"), Str(<<"dev">>))

\* lines 212-217: the template as it is when line 219 looks for VENDOR_JS
debugStyled(o, template, cssLines) ==
  addAppCss(o.debugCss, addVendorCss(debugVersions(template), cssLines))

\* lines 229-243
appScripts(o) ==
  LET closureSrcPath == closureLibPath \o <<"closure", "goog">>
      appLoaderPath == getAppLoaderPath(o.appPath)
      paths == <<Relative(o.basePath, o.appPath \o <<".build", "gcc-defines-debug.js">>),
                 Relative(o.basePath, closureSrcPath \o <<"base.js">>),
                 Relative(o.basePath, closureSrcPath \o <<"deps.js">>),
                 Relative(o.basePath, appLoaderPath)>>
  IN  [i \in DOMAIN paths |-> createScriptTag(PathStr(paths[i], o.sep))]

\* lines 219-247
debugScripted(o, template, jsLines) ==
  LET t1 == IF HasMarker(template, "VENDOR_JS")
            THEN ReplaceFirst(template, Marker("VENDOR_JS"),
                   JoinWith([i \in DOMAIN jsLines |-> createScriptTag(jsLines[i])], <<NL>>))
            ELSE template
  IN  IF HasMarker(t1, "APP_JS")
      THEN ReplaceFirst(t1, Marker("APP_JS"), JoinWith(appScripts(o), <<NL>>))
      ELSE t1

\* buildDebugIndex on template descriptor t, where tf, css and js are the
\* template file and the two debug manifests as the file system holds them
buildDebugIndex(o, t, tf, css, js) ==
  IF t.skip THEN Outcome("skipped", <<>>, <<>>, <<>>, <<>>)
  ELSE IF ~tf.e THEN Outcome("missing", <<>>, <<>>, <<>>, <<>>)
  ELSE IF ~css.e THEN Outcome("exit", tf.d, <<>>, <<>>, <<>>)
  ELSE LET cssLines == SplitLines(css.d)
           styled == debugStyled(o, tf.d, cssLines)
       IN  IF HasMarker(styled, "VENDOR_JS") /\ ~js.e
           THEN Outcome("exit", tf.d, cssLines, <<>>, <<>>)
           ELSE LET jsLines == IF HasMarker(styled, "VENDOR_JS")
                               THEN SplitLines(js.d) ELSE <<>>
                IN  Outcome("written", tf.d, cssLines, jsLines,
                            debugScripted(o, styled, jsLines))

\* lines 155-161
compiledVersions(o, template) ==
  LET version == o.appVersion
      packageVersion == IF o.overrideVersion # <<>> THEN o.overrideVersion
                        ELSE o.packageVersion
      versionPath == IF version # <<>> THEN version \o <<o.sep>> ELSE <<>>
      t1 == ReplaceAll(Expand(template), TokenChars("appVersion"), Str(version))
      t2 == ReplaceAll(t1, TokenChars("packageVersion"), Str(packageVersion))
  IN  ReplaceAll(t2, TokenChars("version"), Str(Slash(versionPath)))

\* buildCompiledIndex on template descriptor t, where tf, css and js are the
\* template file and the two dist manifests as the file system holds them
buildCompiledIndex(o, t, tf, css, js) ==
  IF t.skip THEN Outcome("skipped", <<>>, <<>>, <<>>, <<>>)
  ELSE IF ~tf.e THEN Outcome("missing", <<>>, <<>>, <<>>, <<>>)
  ELSE IF ~css.e THEN Outcome("exit", tf.d, <<>>, <<>>, <<>>)
  ELSE IF ~js.e THEN Outcome("exit", tf.d, SplitLines(css.d), <<>>, <<>>)
  ELSE LET cssLines == SplitLines(css.d)
           jsLines == SplitLines(js.d)
           t1 == addVendorCss(compiledVersions(o, tf.d), cssLines)
           t2 == addVendorScripts(t1, jsLines)
           t3 == addAppCss(o.compiledCss, t2)
       IN  Outcome("written", tf.d, cssLines, jsLines, addAppScript(o.compiledJs, t3))

\* ------------------------------------------------------- orchestration
\* a queued callback; sync: it runs in the same turn as the one before it
Job(kind, i, sync) == [kind |-> kind, t |-> i, sync |-> sync]

\* faulty variant: the loader is written for a skipped "index" template too
NeedsLoaderIgnoringSkip(t) == t.id = "index"

\* line 293: the templates buildIndex writes the debug loader for
NeedsLoader(t) == t.id = "index" /\ ~t.skip

\* faulty variant: the callbacks are registered on a promise that is resolved already
\* instead of on the loader's
MapperPromiseResolved(t) == "fulfilled"

\* lines 293-296: the state of the promise the mapper builds, as it is when
\* the mapper registers its callbacks on it
MapperPromise(t) == IF NeedsLoader(t) THEN "pending" ELSE "fulfilled"

\* faulty variant: the compiled build is registered before the debug build
CallbacksCompiledFirst(i, only, sync) ==
  (IF only THEN <<>> ELSE <<Job("compiled", i, sync)>>)
    \o <<Job("debug", i, sync)>>
    \o <<Job("item", i, sync)>>

\* lines 298-306: the callbacks the mapper registers on that promise, and the
\* map's own one on the promise the mapper returns
Callbacks(i, only, sync) ==
  <<Job("debug", i, sync)>>
    \o (IF only THEN <<>> ELSE <<Job("compiled", i, sync)>>)
    \o <<Job("item", i, sync)>>

\* faulty variant: the reason is passed on as it is
RawReason(reason) == <<reason>>

\* line 295
WrapReason(reason) == <<"Failed writing debug loader: ", reason>>

\* the reasons writeDebugLoader rejects with
LoaderReasons == {"ENOENT", "EACCES"}

\* the promise of one buildDebugLoader call: "none" before the call
LoaderState(st, reason) == [st |-> st, reason |-> reason]

\* faulty variant: an exception in a callback ends the run
AfterStepAborting(out, q) == IF out.st = "missing" THEN <<>> ELSE Tail(q)

\* lines 298-300 and 303-305: an exception in a callback rejects the promise
\* that then() returned, which nobody holds; the queue goes on
AfterStep(out, q) == Tail(q)

\* faulty variant: the failure is logged and the process goes on
RunningAfterExit == TRUE

\* lines 72 and 106: process.exit ends the process, nothing runs after it
Running == ~exited

TemplateLists ==
  UNION {[1..n -> Descriptors] : n \in 0..MaxTemplates}
    \cup {<<d>> : d \in OverrideDescriptors}

OneTemplateLists == {<<d>> : d \in Descriptors}

InitOver(lists, optionSets) ==
  /\ templates \in lists
  /\ debugOnly \in BOOLEAN
  /\ options \in optionSets
  /\ files = <<>>
  /\ queue = <<Job("init", 0, FALSE)>>
  /\ mapNext = 1
  /\ waiting = [i \in DOMAIN templates |-> <<>>]
  /\ loader = [i \in DOMAIN templates |-> LoaderState("none", "")]
  /\ loaderCalls = 0
  /\ resolved = 0
  /\ result = [st |-> "pending", reason |-> <<>>]
  /\ observed = "pending"
  /\ exited = FALSE
  /\ exitCode = 0
  /\ dbg = [i \in DOMAIN templates |-> NotRun]
  /\ cmp = [i \in DOMAIN templates |-> NotRun]

InitWith(lists) == InitOver(lists, OptionSets)
Init == InitWith(TemplateLists)
InitOne == InitWith(OneTemplateLists)
InitVersions == InitOver(OneTemplateLists, VersionOptionSets)

\* the map settles the promise buildIndex returned, whose callback is queued
Settle(st, reason, q) ==
  /\ result' = [st |-> st, reason |-> reason]
  /\ queue' = Append(q, Job("observe", 0, FALSE))

\* the map learns that one more mapper promise is fulfilled
ItemFulfilled(q) ==
  /\ resolved' = resolved + 1
  /\ IF result.st = "pending" /\ resolved + 1 >= Len(templates)
     THEN Settle("fulfilled", <<>>, q)
     ELSE queue' = q /\ UNCHANGED result

\* Promise.map calls the mapper (lines 291-308) on the next template
MapTemplate ==
  /\ Running
  /\ queue # <<>> /\ Head(queue).kind = "init"
  /\ mapNext <= Len(templates)
  /\ LET i == mapNext
         t == templates[i]
         gcc == gccArgsPath(options.appPath)
     IN  /\ loaderCalls' = IF NeedsLoader(t) THEN loaderCalls + 1 ELSE loaderCalls
         /\ \E g \in (IF NeedsLoader(t) THEN Look(gcc, {<<>>}) ELSE {File(<<>>)}) :
              /\ files' = IF NeedsLoader(t) THEN Learn(files, <<<<gcc, g>>>>) ELSE files
              /\ IF ~g.e
                 THEN \* line 265 throws: the mapper throws and the map rejects
                      /\ Settle("rejected", <<"Cannot find module">>, Tail(queue))
                      /\ mapNext' = Len(templates) + 1
                      /\ UNCHANGED <<waiting, loader, resolved>>
                 ELSE /\ mapNext' = mapNext + 1
                      /\ loader' = IF NeedsLoader(t)
                                   THEN [loader EXCEPT ![i] = LoaderState("pending", "")]
                                   ELSE loader
                      /\ IF MapperPromise(t) = "pending"
                         THEN /\ waiting' = [waiting EXCEPT
                                              ![i] = Callbacks(i, debugOnly, TRUE)]
                              /\ UNCHANGED <<queue, resolved, result>>
                         ELSE /\ LET cb == Callbacks(i, debugOnly, FALSE)
                                 IN  ItemFulfilled(queue \o SubSeq(cb, 1, Len(cb) - 1))
                              /\ UNCHANGED waiting
  /\ UNCHANGED <<templates, debugOnly, options, observed, exited, exitCode, dbg, cmp>>

\* the map has called the mapper on every template
MapDone ==
  /\ Running
  /\ queue # <<>> /\ Head(queue).kind = "init"
  /\ mapNext > Len(templates)
  /\ IF result.st = "pending" /\ resolved >= Len(templates)
     THEN Settle("fulfilled", <<>>, Tail(queue))
     ELSE queue' = Tail(queue) /\ UNCHANGED result
  /\ UNCHANGED <<templates, debugOnly, options, files, mapNext, waiting, loader,
                 loaderCalls, resolved, observed, exited, exitCode, dbg, cmp>>

\* a promise's callbacks run one after the other once it settles: nothing
\* settles between two of them
Idle == IF queue = <<>> THEN TRUE ELSE Head(queue).kind # "init" /\ ~Head(queue).sync

\* writeDebugLoader's promise is fulfilled (line 266)
LoaderFulfils(i) ==
  /\ Running /\ Idle
  /\ loader[i].st = "pending"
  /\ loader' = [loader EXCEPT ![i] = LoaderState("fulfilled", "")]
  /\ queue' = waiting[i] \o queue
  /\ waiting' = [waiting EXCEPT ![i] = <<>>]
  /\ UNCHANGED <<templates, debugOnly, options, files, mapNext, loaderCalls,
                 resolved, result, observed, exited, exitCode, dbg, cmp>>

\* writeDebugLoader's promise is rejected: line 295 wraps the reason, the
\* callbacks of lines 298-306 are not called and the map rejects
LoaderRejects(i) ==
  /\ Running /\ Idle
  /\ loader[i].st = "pending"
  /\ \E reason \in LoaderReasons :
       /\ loader' = [loader EXCEPT ![i] = LoaderState("rejected", reason)]
       /\ waiting' = [waiting EXCEPT ![i] = <<>>]
       /\ IF result.st = "pending"
          THEN Settle("rejected", WrapReason(reason), queue)
          ELSE UNCHANGED <<queue, result>>
  /\ UNCHANGED <<templates, debugOnly, options, files, mapNext, loaderCalls,
                 resolved, observed, exited, exitCode, dbg, cmp>>

\* the map's callback on a mapper promise that was pending
RunItem ==
  /\ Running
  /\ queue # <<>> /\ Head(queue).kind = "item"
  /\ ItemFulfilled(Tail(queue))
  /\ UNCHANGED <<templates, debugOnly, options, files, mapNext, waiting, loader,
                 loaderCalls, observed, exited, exitCode, dbg, cmp>>

\* the caller's callback on the promise buildIndex returned
RunObserve ==
  /\ Running
  /\ queue # <<>> /\ Head(queue).kind = "observe"
  /\ observed' = result.st
  /\ queue' = Tail(queue)
  /\ UNCHANGED <<templates, debugOnly, options, files, mapNext, waiting, loader,
                 loaderCalls, resolved, result, exited, exitCode, dbg, cmp>>

\* what a finished build step leaves: the files it looked at, the file it
\* wrote, and process.exit(1) after a failed manifest read
Finish(out, reads, indexPath) ==
  /\ files' = IF out.st = "written"
              THEN WriteFile(Learn(files, reads), indexPath, out.html)
              ELSE Learn(files, reads)
  /\ exited' = (out.st = "exit")
  /\ exitCode' = IF out.st = "exit" THEN 1 ELSE exitCode
  /\ queue' = AfterStep(out, queue)

\* the callback of lines 298-300: buildDebugIndex (lines 187-256)
RunDebug(TS, CS, JS) ==
  /\ Running
  /\ queue # <<>> /\ Head(queue).kind = "debug"
  /\ LET i == Head(queue).t
         t == templates[i]
         tp == templatePath(options, t)
         cp == vendorPath(options, "css", "debug", t.id)
         jp == vendorPath(options, "js", "debug", t.id)
     IN  \E tf \in (IF t.skip THEN {Missing} ELSE Look(tp, TS)) :
         \E css \in (IF tf.e THEN Look(cp, CS) ELSE {Missing}) :
           LET needJs == css.e /\ HasMarker(debugStyled(options, tf.d, SplitLines(css.d)),
                                            "VENDOR_JS")
           IN  \E js \in (IF needJs THEN Look(jp, JS) ELSE {Missing}) :
                 LET out == buildDebugIndex(options, t, tf, css, js)
                     reads == (IF t.skip THEN <<>> ELSE <<<<tp, tf>>>>)
                              \o (IF tf.e THEN <<<<cp, css>>>> ELSE <<>>)
                              \o (IF needJs THEN <<<<jp, js>>>> ELSE <<>>)
                 IN  /\ dbg' = [dbg EXCEPT ![i] = out]
                     /\ Finish(out, reads, debugIndexPath(options, t.id))
  /\ UNCHANGED <<templates, debugOnly, options, mapNext, waiting, loader,
                 loaderCalls, resolved, result, observed, cmp>>

\* the callback of lines 303-305: buildCompiledIndex (lines 137-185)
RunCompiled(TS, CS, JS) ==
  /\ Running
  /\ queue # <<>> /\ Head(queue).kind = "compiled"
  /\ LET i == Head(queue).t
         t == templates[i]
         tp == templatePath(options, t)
         cp == vendorPath(options, "css", "dist", t.id)
         jp == vendorPath(options, "js", "dist", t.id)
     IN  \E tf \in (IF t.skip THEN {Missing} ELSE Look(tp, TS)) :
         \E css \in (IF tf.e THEN Look(cp, CS) ELSE {Missing}) :
         \E js \in (IF css.e THEN Look(jp, JS) ELSE {Missing}) :
           LET out == buildCompiledIndex(options, t, tf, css, js)
               reads == (IF t.skip THEN <<>> ELSE <<<<tp, tf>>>>)
                        \o (IF tf.e THEN <<<<cp, css>>>> ELSE <<>>)
                        \o (IF css.e THEN <<<<jp, js>>>> ELSE <<>>)
           IN  /\ cmp' = [cmp EXCEPT ![i] = out]
               /\ Finish(out, reads, compiledIndexPath(options, t.id))
  /\ UNCHANGED <<templates, debugOnly, options, mapNext, waiting, loader,
                 loaderCalls, resolved, result, observed, dbg>>

Orchestrate ==
  \/ MapTemplate
  \/ MapDone
  \/ \E i \in DOMAIN templates : LoaderFulfils(i)
  \/ \E i \in DOMAIN templates : LoaderRejects(i)
  \/ RunItem
  \/ RunObserve

\* runs over template lists, with the test suite's templates and one manifest
Next ==
  \/ Orchestrate
  \/ RunDebug(SuiteTemplates, OneManifest, OneManifest)
  \/ RunCompiled(SuiteTemplates, OneManifest, OneManifest)

Spec == Init /\ [][Next]_vars

\* runs over one template, where one of the manifests a build step reads
\* holds any content of at most MaxChars characters
NextManifests ==
  \/ Orchestrate
  \/ RunDebug(FillTemplates, AllManifests, OneManifest)
  \/ RunDebug(FillTemplates, OneManifest, AllManifests)
  \/ RunCompiled(FillTemplates, AllManifests, OneManifest)
  \/ RunCompiled(FillTemplates, OneManifest, AllManifests)

SpecManifests == InitOne /\ [][NextManifests]_vars

\* runs over one template, which is any document of at most MaxLen tokens
NextTemplates ==
  \/ Orchestrate
  \/ RunDebug(AllTemplates, OneManifest, OneManifest)
  \/ RunCompiled(AllTemplates, OneManifest, OneManifest)

SpecTemplates == InitOne /\ [][NextTemplates]_vars

\* runs over one template, which is any text of at most MaxLen pieces of
\* version tokens
NextVersions ==
  \/ Orchestrate
  \/ RunDebug(VersionTemplates, OneManifest, OneManifest)
  \/ RunCompiled(VersionTemplates, OneManifest, OneManifest)

SpecVersions == InitVersions /\ [][NextVersions]_vars

\* ------------------------------------------------------------- claims
Built(step) == step.st = "written"
Reserved(i) == templates[i].id = "index" /\ ~templates[i].skip

\* nothing is queued, no loader is pending and the process is alive
RunOver ==
  /\ ~exited
  /\ queue = <<>>
  /\ \A i \in DOMAIN templates : loader[i].st # "pending"

\* C1: for a template descriptor with skip: true no debug and no compiled
\* output file is written, in debugOnly runs and in full runs, and when its
\* id is "index" the loader generation is not started for it.
C1_SkippedWritesNothing ==
  \A i \in DOMAIN templates :
    templates[i].skip =>
      /\ ~Built(dbg[i]) /\ ~Built(cmp[i])
      /\ loader[i].st = "none"
      /\ (\A j \in DOMAIN templates : templates[j].id = templates[i].id => templates[j].skip)
           => /\ debugIndexPath(options, templates[i].id) \notin DOMAIN files
              /\ compiledIndexPath(options, templates[i].id) \notin DOMAIN files
              /\ (templates[i].id = "index" => loaderCalls = 0)

\* a skipped "index" template whose two build steps ran in a full run that
\* built another template
C1_Witness ==
  \E i, j \in DOMAIN templates :
    /\ templates[i].skip /\ templates[i].id = "index"
    /\ dbg[i].st = "skipped" /\ cmp[i].st = "skipped"
    /\ Built(dbg[j]) /\ Built(cmp[j])
    /\ observed = "fulfilled"

\* C2: in one run the loader generation is invoked exactly once when the
\* list holds a non-skipped "index" template, however many templates carry
\* that id, and never otherwise.
C2_LoaderOnce ==
  /\ loaderCalls <= 1
  /\ mapNext > Len(templates) =>
       loaderCalls = (IF \E i \in DOMAIN templates : Reserved(i) THEN 1 ELSE 0)

\* C3: the debug build of a non-skipped "index" template does not start
\* before its loader generation call has settled, whatever the builds of the
\* other templates do meanwhile.
C3_DebugAfterLoader ==
  \A i \in DOMAIN templates :
    Reserved(i) /\ dbg[i].st # "none" => loader[i].st \in {"fulfilled", "rejected"}

\* the debug index of the "index" template was written just now, after its
\* loader settled and after the two builds of a template declared after it
C3_Witness ==
  \E i, j \in DOMAIN templates :
    /\ i < j /\ Reserved(i) /\ ~Reserved(j)
    /\ Built(dbg[j]) /\ Built(cmp[j])
    /\ loader[i].st = "fulfilled" /\ Built(dbg[i]) /\ cmp[i].st = "none"
    /\ queue # <<>> /\ Head(queue) = Job("compiled", i, TRUE)

C5_MissingTemplateRejects ==
  (\E i \in DOMAIN templates : dbg[i].st = "missing" \/ cmp[i].st = "missing") =>
    /\ result.st # "fulfilled"
    /\ observed # "fulfilled"

\* the run looked for the file at p and did not find it
KnownMissing(p) == IF p \in DOMAIN files THEN ~files[p].e ELSE FALSE

\* the templates whose build nothing but a missing template file can stop
Unhindered(j) ==
  /\ ~templates[j].skip
  /\ loader[j].st # "rejected"
  /\ ~KnownMissing(gccArgsPath(options.appPath))

\* C6: a missing template file aborts the build of that template only: no
\* debug and no compiled output is written for it, and once the run is over
\* every other non-skipped template, before or after it in the list, whose
\* own template file exists has its debug output and, unless debugOnly, its
\* compiled output.
C6_MissingTemplateIsLocal ==
  \A i \in DOMAIN templates :
    dbg[i].st = "missing" =>
      /\ cmp[i].st \in {"none", "missing"}
      /\ RunOver =>
           \A j \in DOMAIN templates :
             Unhindered(j) /\ ~KnownMissing(templatePath(options, templates[j])) =>
               Built(dbg[j]) /\ (debugOnly \/ Built(cmp[j]))

\* a template without a file is followed by one that is built in full
C6_Witness ==
  \E i, j \in DOMAIN templates :
    /\ i < j /\ dbg[i].st = "missing" /\ cmp[i].st = "missing"
    /\ Built(dbg[j]) /\ Built(cmp[j]) /\ RunOver

\* the vendor manifests of the run's templates
ManifestPaths ==
  {vendorPath(options, kind, mode, templates[i].id) :
     kind \in {"css", "js"}, mode \in {"debug", "dist"}, i \in DOMAIN templates}

\* the index files of the run
IndexPaths ==
  {debugIndexPath(options, templates[i].id) : i \in DOMAIN templates}
    \cup {compiledIndexPath(options, templates[i].id) : i \in DOMAIN templates}

Written(fs) == [p \in IndexPaths \cap DOMAIN fs |-> fs[p]]

\* C7: a failed read of a vendor manifest ends the process with status 1 at
\* once: the step that failed writes nothing, and after it no build step of
\* any template runs and no output file is written.
C7_ManifestFailureExits ==
  /\ [](\A p \in ManifestPaths \cap DOMAIN files :
          ~files[p].e => exited /\ exitCode = 1)
  /\ [][/\ exited' /\ ~exited => Written(files') = Written(files)
        /\ exited => Written(files') = Written(files) /\ dbg' = dbg /\ cmp' = cmp
                     /\ observed' = observed]_vars

\* the process ended on a manifest after one template was built, with the
\* callbacks of another one still queued
C7_Witness ==
  /\ exited /\ exitCode = 1
  /\ \E i \in DOMAIN templates : Built(dbg[i])
  /\ \E k \in DOMAIN queue : queue[k].kind \in {"debug", "compiled"}

\* C8: when the caller sees the promise of buildIndex fulfilled, every
\* non-skipped template has its debug index written and, unless debugOnly,
\* its compiled index written.
C8_FulfilledMeansReady ==
  observed = "fulfilled" =>
    \A i \in DOMAIN templates :
      ~templates[i].skip => Built(dbg[i]) /\ (debugOnly \/ Built(cmp[i]))

\* the non-empty lines of a manifest, read character by character
RECURSIVE Runs(_, _)
Runs(content, run) ==
  IF content = <<>> THEN (IF run = <<>> THEN <<>> ELSE <<run>>)
  ELSE IF Head(content) = "\n"
       THEN (IF run = <<>> THEN <<>> ELSE <<run>>) \o Runs(Tail(content), <<>>)
       ELSE Runs(Tail(content), Append(run, Head(content)))
NonEmptyLines(content) == Runs(content, <<>>)

\* the characters of the paths a vendor manifest lists; the paths of the
\* application's own tags hold other ones
VendorChars == {"a", "b", "/", "\\"}
IsVendorTag(x, kind) == x.k = kind /\ \A p \in DOMAIN x.v : x.v[p] \in VendorChars
VendorTags(html, kind) == SelectSeq(html, LAMBDA x : IsVendorTag(x, kind))

\* tag is the tag of the path of one manifest line
TagOf(tag, line) ==
  /\ Len(tag.v) = Len(line)
  /\ \A p \in DOMAIN line : tag.v[p] = (IF line[p] = "\\" THEN "/" ELSE line[p])

MarkerCount(doc, m) == Cardinality({k \in DOMAIN doc : doc[k] = Marker(m)})

\* the marker m of the template of a build step was filled from the manifest
\* at path p: one tag per non-empty line, in file order, and one marker less
Filled(step, m, kind, p) ==
  LET lines == NonEmptyLines(files[p].d)
      tags == VendorTags(step.html, kind)
  IN  /\ Len(tags) = Len(lines)
      /\ \A n \in DOMAIN lines : TagOf(tags[n], lines[n])
      /\ MarkerCount(step.html, m) = MarkerCount(step.tpl, m) - 1

\* the build step found its template and the marker m in it, and went on to
\* read the manifest of m
Fills(step, m) == step.st \in {"exit", "written"} /\ HasMarker(step.tpl, m)

FilledFromManifests(i) ==
  LET id == templates[i].id
  IN  /\ Built(dbg[i]) /\ HasMarker(dbg[i].tpl, "VENDOR_CSS") =>
           Filled(dbg[i], "VENDOR_CSS", "link", vendorPath(options, "css", "debug", id))
      /\ Built(dbg[i]) /\ HasMarker(dbg[i].tpl, "VENDOR_JS") =>
           Filled(dbg[i], "VENDOR_JS", "script", vendorPath(options, "js", "debug", id))
      /\ Built(cmp[i]) /\ HasMarker(cmp[i].tpl, "VENDOR_CSS") =>
           Filled(cmp[i], "VENDOR_CSS", "link", vendorPath(options, "css", "dist", id))
      /\ Built(cmp[i]) /\ HasMarker(cmp[i].tpl, "VENDOR_JS") =>
           Filled(cmp[i], "VENDOR_JS", "script", vendorPath(options, "js", "dist", id))

IsAppTag(x, kind) == x.k = kind /\ ~IsVendorTag(x, kind)

\* no marker comment is left in a written index
NoMarkerLeft(step) ==
  Built(step) => \A m \in MarkerNames : ~HasMarker(step.html, m)

\* a written index holds no tag of a marker its template lacks
NoTagWithoutMarker(step) ==
  Built(step) =>
    \A k \in DOMAIN step.html :
      LET x == step.html[k]
      IN  /\ ~HasMarker(step.tpl, "VENDOR_CSS") => ~IsVendorTag(x, "link")
          /\ ~HasMarker(step.tpl, "VENDOR_JS") => ~IsVendorTag(x, "script")
          /\ ~HasMarker(step.tpl, "APP_CSS") => ~IsAppTag(x, "link")
          /\ ~HasMarker(step.tpl, "APP_JS") => ~IsAppTag(x, "script")

\* C10: for every template and each of the four markers the written debug and
\* compiled HTML holds no marker comment at all, and when the template lacks
\* a marker the output holds none of the tags that marker stands for.
C10_NoMarkerNoStrayTag ==
  \A i \in DOMAIN templates :
    /\ NoMarkerLeft(dbg[i]) /\ NoMarkerLeft(cmp[i])
    /\ NoTagWithoutMarker(dbg[i]) /\ NoTagWithoutMarker(cmp[i])


\* the text with every occurrence of a version token replaced by its value,
\* read from left to right
RECURSIVE Substituted(_, _)
Substituted(doc, values) ==
  IF doc = <<>> THEN <<>>
  ELSE IF \E n \in TokenNames :
            Len(doc) >= Len(TokenChars(n)) /\ SubSeq(doc, 1, Len(TokenChars(n))) = TokenChars(n)
       THEN LET n == CHOOSE n \in TokenNames :
                       Len(doc) >= Len(TokenChars(n))
                         /\ SubSeq(doc, 1, Len(TokenChars(n))) = TokenChars(n)
            IN  values[n] \o Substituted(SubSeq(doc, Len(TokenChars(n)) + 1, Len(doc)), values)
       ELSE <<Head(doc)>> \o Substituted(Tail(doc), values)

HasToken(doc) ==
  \E n \in TokenNames : \E k \in DOMAIN doc :
    /\ k + Len(TokenChars(n)) - 1 <= Len(doc)
    /\ SubSeq(doc, k, k + Len(TokenChars(n)) - 1) = TokenChars(n)

DebugValues ==
  [n \in TokenNames |-> IF n = "version" THEN <<>> ELSE Str(<<"dev">>)]
CompiledValues ==
  [n \in TokenNames |->
     CASE n = "appVersion" -> Str(options.appVersion)
       [] n = "packageVersion" ->
            Str(IF options.overrideVersion # <<>> THEN options.overrideVersion
                ELSE options.packageVersion)
       [] n = "version" ->
            Str(IF options.appVersion # <<>> THEN options.appVersion \o <<"/">> ELSE <<>>)]

NoMarkers(doc) == \A m \in MarkerNames : ~HasMarker(doc, m)

VersionsSubstituted(step, values) ==
  Built(step) /\ NoMarkers(step.tpl) =>
    /\ step.html = Substituted(Expand(step.tpl), values)
    /\ ~HasToken(step.html)

\* C11: every occurrence of a version token of the template is replaced: in
\* the debug output @version@ by nothing and @appVersion@ and
\* @packageVersion@ by dev, whatever the configured versions; in the compiled
\* output @appVersion@ by appVersion, @packageVersion@ by overrideVersion,
\* else packageVersion, else nothing, and @version@ by appVersion and a slash
\* when appVersion is not empty, else by nothing; and no literal token is
\* left in either output.
C11_VersionsSubstituted ==
  \A i \in DOMAIN templates :
    /\ VersionsSubstituted(dbg[i], DebugValues)
    /\ VersionsSubstituted(cmp[i], CompiledValues)


\* this step is the debug or the compiled build step of template j
StartsStep(j) ==
  \/ dbg[j].st = "none" /\ dbg'[j].st # "none"
  \/ cmp[j].st = "none" /\ cmp'[j].st # "none"

\* the build steps of template i have run
StepsDone(i) == dbg[i].st # "none" /\ (debugOnly \/ cmp[i].st # "none")

\* the compiled build step of template j runs after its debug build step
DebugFirst(j) == cmp[j].st = "none" /\ cmp'[j].st # "none" => dbg[j].st # "none"

Writes ==
  {<<"debug", i>> : i \in {k \in DOMAIN templates : Built(dbg[k])}}
    \cup {<<"compiled", i>> : i \in {k \in DOMAIN templates : Built(cmp[k])}}
PathOf(w) ==
  IF w[1] = "debug" THEN debugIndexPath(options, templates[w[2]].id)
  ELSE compiledIndexPath(options, templates[w[2]].id)

\* the template files the build steps of the run have read
TemplatesRead ==
  {templatePath(options, templates[k]) :
     k \in {n \in DOMAIN templates :
              dbg[n].st \in {"written", "exit"} \/ cmp[n].st \in {"written", "exit"}}}

\* C13: no two build tasks of a run, debug or compiled, of the same or of
\* different template descriptors, write the same output path, and no output
\* path is a template file read in the run.
C13_DistinctOutputs ==
  /\ \A w1 \in Writes : \A w2 \in Writes : w1 # w2 => PathOf(w1) # PathOf(w2)
  /\ \A w \in Writes : PathOf(w) \notin TemplatesRead

=============================================================================
